---- MODULE Spec2Model ----
(***************************************************************************)
(* A model of the arithmetic-expression evaluator of src/src/index.ts      *)
(* (lines 1-296): the Lexer (scanner), the recursive-descent Parser that   *)
(* builds the AST, and the tree-walking Interpreter.                       *)
(*                                                                         *)
(* Characters are one-character strings and a text is a sequence of them.  *)
(* Positions are 0-based as in the source, so text[pos] of the source is   *)
(* text[pos + 1] here.  The parser's recursion is unfolded into an         *)
(* explicit call stack; every action is one stretch of parser code that    *)
(* holds at most one eat() call.                                           *)
(*                                                                         *)
(* Numbers are the host's IEEE-754 doubles.  They are modelled as a sign,  *)
(* a magnitude num/den in lowest terms, and the special values Infinity    *)
(* and NaN; zero keeps its sign.  Rounding of quotients that are not       *)
(* exactly representable is not modelled (the magnitudes are exact).       *)
(***************************************************************************)
EXTENDS Integers, Sequences, FiniteSets, TLC

VARIABLES
    text,          \* Lexer.text
    pos,           \* Lexer.pos
    currentChar,   \* Lexer.currentChar
    currentToken,  \* Parser.currentToken (the lookahead)
    stack,         \* the parser's call stack, innermost call last
    ret,           \* the value returned by the call that returned last
    tree,          \* the local `tree` of Interpreter.interpret
    result,        \* the value interpret() returns
    phase,         \* how far main() has got
    error,         \* the error thrown out of main(), if any
    pulled,        \* history: the tokens nextToken has returned so far, each
                   \* with the scanner position after it
    eaten,         \* history: the number of eat() calls whose kind matched
    previous,      \* history: the evaluation main() finished before this one
    origin         \* ghost: the AST the text was rendered from, if any

vars == <<text, pos, currentChar, currentToken, stack, ret, tree, result,
          phase, error, pulled, eaten, previous, origin>>

-----------------------------------------------------------------------------
(* Bounds of the model *)

MaxLen == 4
MaxShort == 3
MaxOps == 2
MaxCut == 1
MaxPad == 2
MaxCalls == 6

-----------------------------------------------------------------------------
(* Characters and tokens *)

Undefined == "undefined"

Digits == {"0", "1", "2", "3", "4", "5", "6", "7", "8", "9"}

DigitValue(c) ==
    CASE c = "0" -> 0 [] c = "1" -> 1 [] c = "2" -> 2 [] c = "3" -> 3
      [] c = "4" -> 4 [] c = "5" -> 5 [] c = "6" -> 6 [] c = "7" -> 7
      [] c = "8" -> 8 [] c = "9" -> 9

\* !isNaN(parseFloat(ch)) for a one-character string ch
IsDigit(c) == c \in Digits

TokenType == {"INTEGER", "PLUS", "MINUS", "MUL", "DIVIDE", "LPAREN", "RPAREN", "EOF"}

Token(type, value) == [type |-> type, value |-> value]

\* Parser.currentToken before the Parser is constructed
NoToken == [type |-> "null", value |-> Undefined]

-----------------------------------------------------------------------------
(* Lexer *)

NewLexer(t) ==
    [text |-> t, pos |-> 0,
     currentChar |-> IF Len(t) >= 1 THEN t[1] ELSE Undefined]

\* advance() that takes the last character for the end of the text
Advance_EndsEarly(lx) ==
    LET p == lx.pos + 1 IN
    [lx EXCEPT !.pos = p,
               !.currentChar = IF p >= Len(lx.text) - 1 THEN Undefined
                               ELSE lx.text[p + 1]]

Advance(lx) ==
    LET p == lx.pos + 1 IN
    [lx EXCEPT !.pos = p,
               !.currentChar = IF p > Len(lx.text) - 1 THEN Undefined
                               ELSE lx.text[p + 1]]

RECURSIVE SkipWhitespace(_)
SkipWhitespace(lx) ==
    IF lx.currentChar # Undefined /\ lx.currentChar = " "
    THEN SkipWhitespace(Advance(lx))
    ELSE lx

\* parseFloat of a non-empty string of decimal digits
RECURSIVE ParseFloat(_)
ParseFloat(s) ==
    IF Len(s) = 0 THEN 0
    ELSE 10 * ParseFloat(SubSeq(s, 1, Len(s) - 1)) + DigitValue(s[Len(s)])

\* integer() with an if for its while: one digit is consumed
IntegerRun_OneDigit(lx, res) ==
    IF lx.currentChar # Undefined /\ IsDigit(lx.currentChar)
    THEN [lexer |-> Advance(lx), value |-> ParseFloat(Append(res, lx.currentChar))]
    ELSE [lexer |-> lx, value |-> ParseFloat(res)]

RECURSIVE IntegerRun(_, _)
IntegerRun(lx, res) ==
    IF lx.currentChar # Undefined /\ IsDigit(lx.currentChar)
    THEN IntegerRun(Advance(lx), Append(res, lx.currentChar))
    ELSE [lexer |-> lx, value |-> ParseFloat(res)]

Integer(lx) == IntegerRun(lx, <<>>)

SingleCharTokens ==
    [c \in {"(", ")", "+", "-", "*", "/"} |->
        CASE c = "(" -> "LPAREN" [] c = ")" -> "RPAREN"
          [] c = "+" -> "PLUS"   [] c = "-" -> "MINUS"
          [] c = "*" -> "MUL"    [] c = "/" -> "DIVIDE"]

\* nextToken() without its whitespace branch: a space is an illegal character
NextToken_NoWhitespace(lx) ==
    IF lx.currentChar = Undefined
    THEN [lexer |-> lx, token |-> Token("EOF", Undefined), raised |-> FALSE]
    ELSE IF IsDigit(lx.currentChar)
    THEN LET r == Integer(lx) IN
         [lexer |-> r.lexer, token |-> Token("INTEGER", r.value), raised |-> FALSE]
    ELSE IF lx.currentChar \in DOMAIN SingleCharTokens
    THEN [lexer |-> Advance(lx),
          token |-> Token(SingleCharTokens[lx.currentChar], lx.currentChar),
          raised |-> FALSE]
    ELSE [lexer |-> lx, token |-> NoToken, raised |-> TRUE]

\* nextToken() that steps over the illegal character before it raises
RECURSIVE NextToken_AdvanceThenRaise(_)
NextToken_AdvanceThenRaise(lx) ==
    IF lx.currentChar = Undefined
    THEN [lexer |-> lx, token |-> Token("EOF", Undefined), raised |-> FALSE]
    ELSE IF lx.currentChar = " "
    THEN NextToken_AdvanceThenRaise(SkipWhitespace(lx))
    ELSE IF IsDigit(lx.currentChar)
    THEN LET r == Integer(lx) IN
         [lexer |-> r.lexer, token |-> Token("INTEGER", r.value), raised |-> FALSE]
    ELSE IF lx.currentChar \in DOMAIN SingleCharTokens
    THEN [lexer |-> Advance(lx),
          token |-> Token(SingleCharTokens[lx.currentChar], lx.currentChar),
          raised |-> FALSE]
    ELSE [lexer |-> Advance(lx), token |-> NoToken, raised |-> TRUE]

\* nextToken() that rewinds the lexer to the start of the text when it
\* returns EOF
RECURSIVE NextToken_Rewinds(_)
NextToken_Rewinds(lx) ==
    IF lx.currentChar = Undefined
    THEN [lexer |-> NewLexer(lx.text), token |-> Token("EOF", Undefined), raised |-> FALSE]
    ELSE IF lx.currentChar = " "
    THEN NextToken_Rewinds(SkipWhitespace(lx))
    ELSE IF IsDigit(lx.currentChar)
    THEN LET r == Integer(lx) IN
         [lexer |-> r.lexer, token |-> Token("INTEGER", r.value), raised |-> FALSE]
    ELSE IF lx.currentChar \in DOMAIN SingleCharTokens
    THEN [lexer |-> Advance(lx),
          token |-> Token(SingleCharTokens[lx.currentChar], lx.currentChar),
          raised |-> FALSE]
    ELSE [lexer |-> lx, token |-> NoToken, raised |-> TRUE]

\* The outcome of one nextToken() call: the lexer afterwards, and either the
\* token returned or raised = TRUE when raiseError() threw.
RECURSIVE NextToken(_)
NextToken(lx) ==
    IF lx.currentChar = Undefined
    THEN [lexer |-> lx, token |-> Token("EOF", Undefined), raised |-> FALSE]
    ELSE IF lx.currentChar = " "
    THEN NextToken(SkipWhitespace(lx))
    ELSE IF IsDigit(lx.currentChar)
    THEN LET r == Integer(lx) IN
         [lexer |-> r.lexer, token |-> Token("INTEGER", r.value), raised |-> FALSE]
    ELSE IF lx.currentChar \in DOMAIN SingleCharTokens
    THEN [lexer |-> Advance(lx),
          token |-> Token(SingleCharTokens[lx.currentChar], lx.currentChar),
          raised |-> FALSE]
    ELSE [lexer |-> lx, token |-> NoToken, raised |-> TRUE]

-----------------------------------------------------------------------------
(* AST *)

UndefNode == [node |-> "undefined"]

Num(token) == [node |-> "Num", token |-> token, value |-> token.value]

UnaryOp(op, expr) == [node |-> "UnaryOp", op |-> op, expr |-> expr]

BinOp(left, op, right) ==
    [node |-> "BinOp", left |-> left, token |-> op, op |-> op, right |-> right]

-----------------------------------------------------------------------------
(* Numbers of the host *)

JsNumber(kind, sign, num, den) == [kind |-> kind, sign |-> sign, num |-> num, den |-> den]

JsUndefined == JsNumber("undefined", 1, 0, 1)
NaN == JsNumber("NaN", 1, 0, 1)
Infinity(sign) == JsNumber("Infinity", sign, 0, 1)
NoValue == JsNumber("none", 1, 0, 1)

RECURSIVE GCD(_, _)
GCD(a, b) == IF b = 0 THEN a ELSE GCD(b, a % b)

Finite(sign, num, den) ==
    LET g == GCD(num, den) IN JsNumber("number", sign, num \div g, den \div g)

FromInteger(n) == IF n < 0 THEN Finite(-1, -n, 1) ELSE Finite(1, n, 1)

IsZero(x) == x.kind = "number" /\ x.num = 0

ToNumber(x) == IF x.kind = "undefined" THEN NaN ELSE x

JsNeg(v) ==
    LET x == ToNumber(v) IN
    IF x.kind = "NaN" THEN NaN ELSE [x EXCEPT !.sign = -x.sign]

JsPlus(v) == ToNumber(v)

JsAdd(v, w) ==
    LET x == ToNumber(v)
        y == ToNumber(w)
    IN  IF x.kind = "NaN" \/ y.kind = "NaN" THEN NaN
        ELSE IF x.kind = "Infinity"
        THEN IF y.kind = "Infinity" /\ y.sign # x.sign THEN NaN ELSE x
        ELSE IF y.kind = "Infinity" THEN y
        ELSE LET a == x.sign * x.num * y.den + y.sign * y.num * x.den
                 d == x.den * y.den
             IN  IF a > 0 THEN Finite(1, a, d)
                 ELSE IF a < 0 THEN Finite(-1, -a, d)
                 ELSE IF IsZero(x) /\ IsZero(y) /\ x.sign = -1 /\ y.sign = -1
                 THEN Finite(-1, 0, 1)
                 ELSE Finite(1, 0, 1)

JsSub(v, w) == JsAdd(v, JsNeg(w))

JsMul(v, w) ==
    LET x == ToNumber(v)
        y == ToNumber(w)
        s == x.sign * y.sign
    IN  IF x.kind = "NaN" \/ y.kind = "NaN" THEN NaN
        ELSE IF x.kind = "Infinity" \/ y.kind = "Infinity"
        THEN IF IsZero(x) \/ IsZero(y) THEN NaN ELSE Infinity(s)
        ELSE Finite(s, x.num * y.num, x.den * y.den)

\* Division that yields zero for a zero divisor
JsDiv_ZeroForZeroDivisor(v, w) ==
    LET x == ToNumber(v)
        y == ToNumber(w)
        s == x.sign * y.sign
    IN  IF x.kind = "NaN" \/ y.kind = "NaN" THEN NaN
        ELSE IF x.kind = "Infinity"
        THEN IF y.kind = "Infinity" THEN NaN ELSE Infinity(s)
        ELSE IF y.kind = "Infinity" THEN Finite(s, 0, 1)
        ELSE IF IsZero(y) THEN Finite(s, 0, 1)
        ELSE Finite(s, x.num * y.den, x.den * y.num)

JsDiv(v, w) ==
    LET x == ToNumber(v)
        y == ToNumber(w)
        s == x.sign * y.sign
    IN  IF x.kind = "NaN" \/ y.kind = "NaN" THEN NaN
        ELSE IF x.kind = "Infinity"
        THEN IF y.kind = "Infinity" THEN NaN ELSE Infinity(s)
        ELSE IF y.kind = "Infinity" THEN Finite(s, 0, 1)
        ELSE IF IsZero(y)
        THEN IF IsZero(x) THEN NaN ELSE Infinity(s)
        ELSE Finite(s, x.num * y.den, x.den * y.num)

-----------------------------------------------------------------------------
(* Interpreter *)

RECURSIVE Visit(_)

VisitNum(node) == FromInteger(node.value)

\* visitUnaryOp() whose MINUS branch does not negate
VisitUnaryOp_NoNegation(node) ==
    IF node.op.type = "PLUS" THEN JsPlus(Visit(node.expr))
    ELSE IF node.op.type = "MINUS" THEN JsPlus(Visit(node.expr))
    ELSE JsUndefined

VisitUnaryOp(node) ==
    IF node.op.type = "PLUS" THEN JsPlus(Visit(node.expr))
    ELSE IF node.op.type = "MINUS" THEN JsNeg(Visit(node.expr))
    ELSE JsUndefined

\* visitBinOp() whose MUL branch adds
VisitBinOp_MulAdds(node) ==
    IF node.op.type = "PLUS" THEN JsAdd(Visit(node.left), Visit(node.right))
    ELSE IF node.op.type = "MINUS" THEN JsSub(Visit(node.left), Visit(node.right))
    ELSE IF node.op.type = "MUL" THEN JsAdd(Visit(node.left), Visit(node.right))
    ELSE IF node.op.type = "DIVIDE" THEN JsDiv(Visit(node.left), Visit(node.right))
    ELSE JsUndefined

VisitBinOp(node) ==
    IF node.op.type = "PLUS" THEN JsAdd(Visit(node.left), Visit(node.right))
    ELSE IF node.op.type = "MINUS" THEN JsSub(Visit(node.left), Visit(node.right))
    ELSE IF node.op.type = "MUL" THEN JsMul(Visit(node.left), Visit(node.right))
    ELSE IF node.op.type = "DIVIDE" THEN JsDiv(Visit(node.left), Visit(node.right))
    ELSE JsUndefined

Visit(node) ==
    IF node.node = "UnaryOp" THEN VisitUnaryOp(node)
    ELSE IF node.node = "BinOp" THEN VisitBinOp(node)
    ELSE IF node.node = "Num" THEN VisitNum(node)
    ELSE JsUndefined

-----------------------------------------------------------------------------
(* Parser: eat, and the call stack *)

Lexer == [text |-> text, pos |-> pos, currentChar |-> currentChar]

\* eat() pulling the next token before it compares the lookahead's kind
Eat_PullsBeforeCheck(tokenType) ==
    LET r == NextToken(Lexer) IN
    IF r.raised
    THEN [raised |-> "InvalidCharacter", lexer |-> r.lexer,
          currentToken |-> currentToken, tokens |-> <<>>, matched |-> 0]
    ELSE IF currentToken.type = tokenType
    THEN [raised |-> "none", lexer |-> r.lexer,
          currentToken |-> r.token,
          tokens |-> <<[token |-> r.token, pos |-> r.lexer.pos]>>, matched |-> 1]
    ELSE [raised |-> "UnexpectedToken", lexer |-> r.lexer,
          currentToken |-> currentToken, tokens |-> <<>>, matched |-> 0]

\* eat() without its else branch: a lookahead of another kind is passed over
\* in silence
Eat_Silent(tokenType) ==
    IF currentToken.type = tokenType
    THEN LET r == NextToken(Lexer) IN
         IF r.raised
         THEN [raised |-> "InvalidCharacter", lexer |-> r.lexer,
               currentToken |-> currentToken, tokens |-> <<>>, matched |-> 1]
         ELSE [raised |-> "none", lexer |-> r.lexer,
               currentToken |-> r.token,
               tokens |-> <<[token |-> r.token, pos |-> r.lexer.pos]>>, matched |-> 1]
    ELSE [raised |-> "none", lexer |-> Lexer,
          currentToken |-> currentToken, tokens |-> <<>>, matched |-> 0]

\* The outcome of eat(tokenType) in the current state: which error it threw
\* ("none" when it returned), the lexer and the lookahead afterwards, and the
\* number of tokens it pulled.
Eat(tokenType) ==
    IF currentToken.type = tokenType
    THEN LET r == NextToken(Lexer) IN
         IF r.raised
         THEN [raised |-> "InvalidCharacter", lexer |-> r.lexer,
               currentToken |-> currentToken, tokens |-> <<>>, matched |-> 1]
         ELSE [raised |-> "none", lexer |-> r.lexer,
               currentToken |-> r.token,
               tokens |-> <<[token |-> r.token, pos |-> r.lexer.pos]>>, matched |-> 1]
    ELSE [raised |-> "UnexpectedToken", lexer |-> Lexer,
          currentToken |-> currentToken, tokens |-> <<>>, matched |-> 0]

Frame(fn, pc, node, token) == [fn |-> fn, pc |-> pc, node |-> node, token |-> token]

Call(fn) == Frame(fn, "start", UndefNode, NoToken)

Top == stack[Len(stack)]

Pop == SubSeq(stack, 1, Len(stack) - 1)

At(fn, pc) == phase = "parsing" /\ Len(stack) > 0 /\ Top.fn = fn /\ Top.pc = pc

\* The state the lexer and the lookahead are left in by an eat() call
Scanned(e) ==
    /\ pos' = e.lexer.pos
    /\ currentChar' = e.lexer.currentChar
    /\ currentToken' = e.currentToken
    /\ pulled' = pulled \o e.tokens
    /\ eaten' = eaten + e.matched

\* The parser catching whatever eat() threw and raising its own error in its place
Throw_AsSyntaxError(e) ==
    /\ Scanned(e)
    /\ phase' = "error"
    /\ error' = "UnexpectedToken"
    /\ stack' = <<>>
    /\ UNCHANGED <<text, ret, tree, result, previous, origin>>

\* eat() threw: the exception unwinds every call up to main()
Throw(e) ==
    /\ Scanned(e)
    /\ phase' = "error"
    /\ error' = e.raised
    /\ stack' = <<>>
    /\ UNCHANGED <<text, ret, tree, result, previous, origin>>

\* eat() returned: the parser goes on with the call stack s, and r returned
Continue(e, s, r) ==
    /\ Scanned(e)
    /\ stack' = s
    /\ ret' = r
    /\ UNCHANGED <<text, tree, result, phase, error, previous, origin>>

\* A step of the parser that calls neither eat() nor nextToken()
Step(s, r) ==
    /\ stack' = s
    /\ ret' = r
    /\ UNCHANGED <<text, pos, currentChar, currentToken, tree, result, phase,
                   error, pulled, eaten, previous, origin>>

-----------------------------------------------------------------------------
(* main(): Lexer and Parser construction, Interpreter.interpret *)

\* What is kept of a finished evaluation
Run(t, ph, err, tr, res, toks) ==
    [text |-> t, phase |-> ph, error |-> err, tree |-> tr, result |-> res,
     pulled |-> toks]

NoRun == Run(<<>>, "none", "none", UndefNode, NoValue, <<>>)

\* new Lexer(input): the state main() is in once the Lexer is constructed
Start(t, o) ==
    /\ text = t
    /\ pos = NewLexer(t).pos
    /\ currentChar = NewLexer(t).currentChar
    /\ currentToken = NoToken
    /\ stack = <<>>
    /\ ret = UndefNode
    /\ tree = UndefNode
    /\ result = NoValue
    /\ phase = "lexer"
    /\ error = "none"
    /\ pulled = <<>>
    /\ eaten = 0
    /\ previous = NoRun
    /\ origin = o

\* new Parser(lexer) that scans one token further than its lookahead
ParserNew_ScansAhead ==
    /\ phase = "lexer"
    /\ LET r == NextToken(Lexer)
           q == NextToken(r.lexer)
       IN
       /\ pos' = q.lexer.pos
       /\ currentChar' = q.lexer.currentChar
       /\ IF r.raised \/ q.raised
          THEN /\ phase' = "error"
               /\ error' = "InvalidCharacter"
               /\ UNCHANGED <<currentToken, pulled>>
          ELSE /\ phase' = "parser"
               /\ currentToken' = r.token
               /\ pulled' = pulled \o <<[token |-> r.token, pos |-> r.lexer.pos],
                                        [token |-> q.token, pos |-> q.lexer.pos]>>
               /\ UNCHANGED error
    /\ UNCHANGED <<text, stack, ret, tree, result, eaten, previous, origin>>

\* new Parser(lexer): pulls the first lookahead token
ParserNew ==
    /\ phase = "lexer"
    /\ LET r == NextToken(Lexer) IN
       /\ pos' = r.lexer.pos
       /\ currentChar' = r.lexer.currentChar
       /\ IF r.raised
          THEN /\ phase' = "error"
               /\ error' = "InvalidCharacter"
               /\ UNCHANGED <<currentToken, pulled>>
          ELSE /\ phase' = "parser"
               /\ currentToken' = r.token
               /\ pulled' = Append(pulled, [token |-> r.token, pos |-> r.lexer.pos])
               /\ UNCHANGED error
    /\ UNCHANGED <<text, stack, ret, tree, result, eaten, previous, origin>>

\* new Interpreter(parser); interpret() calls parse(), which calls expr()
Interpret ==
    /\ phase = "parser"
    /\ phase' = "parsing"
    /\ stack' = <<Call("expr")>>
    /\ UNCHANGED <<text, pos, currentChar, currentToken, ret, tree, result,
                   error, pulled, eaten, previous, origin>>

\* interpret() that takes a lookahead other than EOF after parse() for a
\* syntax error
InterpretVisit_RequiresEnd ==
    /\ phase = "parsing"
    /\ stack = <<>>
    /\ IF currentToken.type = "EOF"
       THEN /\ tree' = ret
            /\ result' = Visit(ret)
            /\ phase' = "done"
            /\ UNCHANGED error
       ELSE /\ phase' = "error"
            /\ error' = "UnexpectedToken"
            /\ UNCHANGED <<tree, result>>
    /\ UNCHANGED <<text, pos, currentChar, currentToken, stack, ret,
                   pulled, eaten, previous, origin>>

\* parse() has returned: tree = parse(); return visit(tree)
InterpretVisit ==
    /\ phase = "parsing"
    /\ stack = <<>>
    /\ tree' = ret
    /\ result' = Visit(ret)
    /\ phase' = "done"
    /\ UNCHANGED <<text, pos, currentChar, currentToken, stack, ret, error,
                   pulled, eaten, previous, origin>>

-----------------------------------------------------------------------------
(* Parser.factor *)

FactorPlus ==
    /\ At("factor", "start")
    /\ currentToken.type = "PLUS"
    /\ LET e == Eat("PLUS") IN
       IF e.raised # "none" THEN Throw(e)
       ELSE Continue(e, Append(Append(Pop, Frame("factor", "unary", UndefNode, currentToken)),
                               Call("factor")), ret)

FactorMinus ==
    /\ At("factor", "start")
    /\ currentToken.type = "MINUS"
    /\ LET e == Eat("MINUS") IN
       IF e.raised # "none" THEN Throw(e)
       ELSE Continue(e, Append(Append(Pop, Frame("factor", "unary", UndefNode, currentToken)),
                               Call("factor")), ret)

\* return new UnaryOp(token, this.factor()), once the inner factor() returned
FactorUnaryReturn ==
    /\ At("factor", "unary")
    /\ Step(Pop, UnaryOp(Top.token, ret))

FactorInteger ==
    /\ At("factor", "start")
    /\ currentToken.type = "INTEGER"
    /\ LET e == Eat("INTEGER") IN
       IF e.raised # "none" THEN Throw(e)
       ELSE Continue(e, Pop, Num(currentToken))

FactorLParen ==
    /\ At("factor", "start")
    /\ currentToken.type = "LPAREN"
    /\ LET e == Eat("LPAREN") IN
       IF e.raised # "none" THEN Throw(e)
       ELSE Continue(e, Append(Append(Pop, Frame("factor", "paren", UndefNode, currentToken)),
                               Call("expr")), ret)

\* let result = this.expr() has returned: this.eat(RPAREN); return result
FactorRParen ==
    /\ At("factor", "paren")
    /\ LET e == Eat("RPAREN") IN
       IF e.raised # "none" THEN Throw(e)
       ELSE Continue(e, Pop, ret)

\* none of the four ifs applies: factor() falls off its end and returns undefined
FactorFallThrough ==
    /\ At("factor", "start")
    /\ currentToken.type \notin {"PLUS", "MINUS", "INTEGER", "LPAREN"}
    /\ Step(Pop, UndefNode)

-----------------------------------------------------------------------------
(* Parser.term *)

\* let node = this.factor()
TermStart ==
    /\ At("term", "start")
    /\ Step(Append(Append(Pop, Frame("term", "first", UndefNode, NoToken)),
                   Call("factor")), ret)

\* The node term() holds once a factor() call has returned: the first factor,
\* or the BinOp built from the node so far, the operator and the new factor.
TermNode ==
    IF Top.pc = "first" THEN ret ELSE BinOp(Top.node, Top.token, ret)

\* The loop of term() without its eat(): the operator is never consumed
TermOperator_NoEat ==
    /\ At("term", "first") \/ At("term", "rhs")
    /\ currentToken.type \in {"MUL", "DIVIDE"}
    /\ Step(Append(Append(Pop, Frame("term", "rhs", TermNode, currentToken)),
                   Call("factor")), ret)

TermOperator ==
    /\ At("term", "first") \/ At("term", "rhs")
    /\ currentToken.type \in {"MUL", "DIVIDE"}
    /\ LET e == Eat(currentToken.type) IN
       IF e.raised # "none" THEN Throw(e)
       ELSE Continue(e, Append(Append(Pop, Frame("term", "rhs", TermNode, currentToken)),
                               Call("factor")), ret)

TermReturn ==
    /\ At("term", "first") \/ At("term", "rhs")
    /\ currentToken.type \notin {"MUL", "DIVIDE"}
    /\ Step(Pop, TermNode)

-----------------------------------------------------------------------------
(* Parser.expr *)

\* let node = this.term()
ExprStart ==
    /\ At("expr", "start")
    /\ Step(Append(Append(Pop, Frame("expr", "first", UndefNode, NoToken)),
                   Call("term")), ret)

ExprNode ==
    IF Top.pc = "first" THEN ret ELSE BinOp(Top.node, Top.token, ret)

\* expr() with the operands of + and - parsed by factor(): no precedence
ExprOperator_NoPrecedence ==
    /\ At("expr", "first") \/ At("expr", "rhs")
    /\ currentToken.type \in {"MINUS", "PLUS"}
    /\ LET e == Eat(currentToken.type) IN
       IF e.raised # "none" THEN Throw(e)
       ELSE Continue(e, Append(Append(Pop, Frame("expr", "rhs", ExprNode, currentToken)),
                               Call("factor")), ret)

\* expr() with the right operand of + and - parsed by expr() itself: the
\* chain nests to the right
ExprOperator_RightRecursive ==
    /\ At("expr", "first") \/ At("expr", "rhs")
    /\ currentToken.type \in {"MINUS", "PLUS"}
    /\ LET e == Eat(currentToken.type) IN
       IF e.raised # "none" THEN Throw(e)
       ELSE Continue(e, Append(Append(Pop, Frame("expr", "rhs", ExprNode, currentToken)),
                               Call("expr")), ret)

ExprOperator ==
    /\ At("expr", "first") \/ At("expr", "rhs")
    /\ currentToken.type \in {"MINUS", "PLUS"}
    /\ LET e == Eat(currentToken.type) IN
       IF e.raised # "none" THEN Throw(e)
       ELSE Continue(e, Append(Append(Pop, Frame("expr", "rhs", ExprNode, currentToken)),
                               Call("term")), ret)

ExprReturn ==
    /\ At("expr", "first") \/ At("expr", "rhs")
    /\ currentToken.type \notin {"MINUS", "PLUS"}
    /\ Step(Pop, ExprNode)

-----------------------------------------------------------------------------
(* Specifications *)

Next ==
    \/ ParserNew
    \/ Interpret
    \/ InterpretVisit
    \/ FactorPlus
    \/ FactorMinus
    \/ FactorUnaryReturn
    \/ FactorInteger
    \/ FactorLParen
    \/ FactorRParen
    \/ FactorFallThrough
    \/ TermStart
    \/ TermOperator
    \/ TermReturn
    \/ ExprStart
    \/ ExprOperator
    \/ ExprReturn

\* The characters the input texts are made of: two digits, the space, the six
\* operator and parenthesis characters, and one character outside the language.
Alphabet == {"0", "2", " ", "(", ")", "+", "-", "*", "/", "&"}

Texts == UNION {[1..k -> Alphabet] : k \in 0..MaxLen}

\* Every text of at most MaxLen characters
Init == \E t \in Texts : Start(t, UndefNode)

Spec == Init /\ [][Next]_vars

Terminated == phase \in {"done", "error"}

-----------------------------------------------------------------------------
(* Inputs rendered from an AST *)

\* The values of the integer literals of the rendered trees
LiteralValues == {0, 3}

Literals == {Token("INTEGER", k) : k \in LiteralValues}

UnaryOperators == {Token("PLUS", "+"), Token("MINUS", "-")}

BinaryOperators ==
    {Token("PLUS", "+"), Token("MINUS", "-"), Token("MUL", "*"), Token("DIVIDE", "/")}

\* The ASTs with exactly n operator nodes over Literals
RECURSIVE TreesOf(_)
TreesOf(n) ==
    IF n = 0 THEN {Num(k) : k \in Literals}
    ELSE {UnaryOp(op, t) : op \in UnaryOperators, t \in TreesOf(n - 1)}
         \cup UNION {{BinOp(l, op, r) : l \in TreesOf(i), op \in BinaryOperators,
                                        r \in TreesOf(n - 1 - i)} : i \in 0..(n - 1)}

Trees == UNION {TreesOf(n) : n \in 0..MaxOps}

DigitChar(d) ==
    CASE d = 0 -> "0" [] d = 1 -> "1" [] d = 2 -> "2" [] d = 3 -> "3" [] d = 4 -> "4"
      [] d = 5 -> "5" [] d = 6 -> "6" [] d = 7 -> "7" [] d = 8 -> "8" [] d = 9 -> "9"

RECURSIVE Decimal(_)
Decimal(n) ==
    IF n < 10 THEN <<DigitChar(n)>> ELSE Append(Decimal(n \div 10), DigitChar(n % 10))

\* How tightly the top of a tree binds in the grammar: 1 an expr (+ -),
\* 2 a term (* /), 3 a factor (a literal or a unary sign)
Level(t) ==
    IF t.node = "BinOp" THEN (IF t.op.type \in {"PLUS", "MINUS"} THEN 1 ELSE 2) ELSE 3

Styles == {"tight", "spaced", "full"}

\* The text of a tree.  "tight" and "spaced" put parentheses only around an
\* operand that binds less tightly than its place in the grammar asks for
\* (left operands one level looser than right operands), "spaced" with one
\* space between tokens; "full" puts them around every binary operation.
RECURSIVE Render(_, _)
Render(t, style) ==
    LET gap == IF style = "spaced" THEN <<" ">> ELSE <<>>
        Paren(s) == <<"(">> \o gap \o s \o gap \o <<")">>
        Operand(c, need) ==
            IF style # "full" /\ Level(c) < need
            THEN Paren(Render(c, style)) ELSE Render(c, style)
    IN  IF t.node = "Num" THEN Decimal(t.value)
        ELSE IF t.node = "UnaryOp"
        THEN <<t.op.value>> \o gap \o Operand(t.expr, 3)
        ELSE LET body == Operand(t.left, Level(t)) \o gap \o <<t.op.value>>
                         \o gap \o Operand(t.right, Level(t) + 1)
             IN  IF style = "full" THEN Paren(body) ELSE body

\* s without its last n characters
CutShort(s, n) == SubSeq(s, 1, Len(s) - n)

\* Every rendering of every tree of at most MaxOps operators, whole or cut short
\* by at most MaxCut characters
InitTree ==
    \E t \in Trees : \E style \in Styles : \E n \in 0..MaxCut :
        /\ n <= Len(Render(t, style))
        /\ Start(CutShort(Render(t, style), n), t)

SpecTree == InitTree /\ [][Next]_vars

-----------------------------------------------------------------------------
(* A second evaluation, by a fresh Lexer, Parser and Interpreter *)

Spaces(n) == [i \in 1..n |-> " "]

InsertSpaces(t, i, n) == SubSeq(t, 1, i) \o Spaces(n) \o SubSeq(t, i + 1, Len(t))

\* After i characters of t the text is not inside a run of digits
BetweenTokens(t, i) == ~(i >= 1 /\ i < Len(t) /\ IsDigit(t[i]) /\ IsDigit(t[i + 1]))

\* t with 1..MaxPad spaces put before its first token, after its last one or
\* between two adjacent ones
Padded(t) ==
    {InsertSpaces(t, i, n) : i \in {j \in 0..Len(t) : BetweenTokens(t, j)}, n \in 1..MaxPad}

\* main() once more on the text t, but scanning with the Lexer of the evaluation
\* before instead of a new one
MainAgain_SharedLexer(t) ==
    /\ previous' = Run(text, phase, error, tree, result, pulled)
    /\ text' = t
    /\ currentToken' = NoToken
    /\ stack' = <<>>
    /\ ret' = UndefNode
    /\ tree' = UndefNode
    /\ result' = NoValue
    /\ phase' = "lexer"
    /\ error' = "none"
    /\ pulled' = <<>>
    /\ eaten' = 0
    /\ UNCHANGED <<pos, currentChar, origin>>

\* main() once more, on the text t
MainAgain(t) ==
    /\ previous' = Run(text, phase, error, tree, result, pulled)
    /\ text' = t
    /\ pos' = NewLexer(t).pos
    /\ currentChar' = NewLexer(t).currentChar
    /\ currentToken' = NoToken
    /\ stack' = <<>>
    /\ ret' = UndefNode
    /\ tree' = UndefNode
    /\ result' = NoValue
    /\ phase' = "lexer"
    /\ error' = "none"
    /\ pulled' = <<>>
    /\ eaten' = 0
    /\ UNCHANGED origin

\* t followed by a token that cannot continue an expression
Trailing(t) == {t \o tail : tail \in {<<")">>, <<"(">>, <<" ", "2">>}}

\* A finished evaluation is followed by one of the same text, of the text with
\* spaces put between its tokens, or of the text with one more token after it
Again ==
    /\ Terminated
    /\ previous.phase = "none"
    /\ \E t \in {text} \cup Padded(text) \cup Trailing(text) : MainAgain(t)

NextAgain == Next \/ Again

ShortTexts == UNION {[1..k -> Alphabet] : k \in 0..MaxShort}

InitShort == \E t \in ShortTexts : Start(t, UndefNode)

SpecAgain == InitShort /\ [][NextAgain]_vars

\* main() is one sequential program: while a step is possible it is taken
SpecFair == InitShort /\ [][Next]_vars /\ WF_vars(Next)

-----------------------------------------------------------------------------
(* The Lexer on its own: nextToken() called again and again *)

\* One nextToken() call on the Lexer, by a caller that keeps what it returns
LexerNextToken ==
    /\ phase = "lexer"
    /\ Len(pulled) < MaxCalls
    /\ LET r == NextToken(Lexer) IN
       /\ pos' = r.lexer.pos
       /\ currentChar' = r.lexer.currentChar
       /\ IF r.raised
          THEN /\ phase' = "error"
               /\ error' = "InvalidCharacter"
               /\ UNCHANGED pulled
          ELSE /\ pulled' = Append(pulled, [token |-> r.token, pos |-> r.lexer.pos])
               /\ UNCHANGED <<phase, error>>
    /\ UNCHANGED <<text, currentToken, stack, ret, tree, result, eaten, previous, origin>>

NextLexer == LexerNextToken

SpecLexer == Init /\ [][NextLexer]_vars

-----------------------------------------------------------------------------
(* Notation for the properties *)

N(k) == Num(Token("INTEGER", k))

PlusToken == Token("PLUS", "+")
MinusToken == Token("MINUS", "-")
MulToken == Token("MUL", "*")
DivideToken == Token("DIVIDE", "/")

\* The text is origin rendered with parentheses only where precedence needs them
RenderedMinimal == text \in {Render(origin, "tight"), Render(origin, "spaced")}

\* The text is origin rendered, in any style
RenderedWhole == \E style \in Styles : text = Render(origin, style)

\* The values x and y are the same number (as === has it: zero has one value)
SameNumber(x, y) ==
    /\ x.kind = "number"
    /\ y.kind = "number"
    /\ x.num = y.num
    /\ x.den = y.den
    /\ (x.sign = y.sign \/ x.num = 0)

RECURSIVE HasUndefined(_)
HasUndefined(t) ==
    IF t.node = "BinOp" THEN HasUndefined(t.left) \/ HasUndefined(t.right)
    ELSE IF t.node = "UnaryOp" THEN HasUndefined(t.expr)
    ELSE t.node # "Num"

-----------------------------------------------------------------------------
(* C1 *)

\* C1 (precedence): an expression written with parentheses only where * and /
\* binding tighter than + and - makes them necessary is evaluated without error
\* and parses to the tree it was written from; "a + b * c" yields a + (b * c)
\* and "(a + b) * c" yields (a + b) * c.
C1_Precedence ==
    /\ RenderedMinimal => phase # "error"
    /\ (phase = "done" /\ RenderedMinimal) =>
          /\ tree = origin
          /\ \A a \in LiteralValues, b \in LiteralValues, c \in LiteralValues :
                /\ origin = BinOp(N(a), PlusToken, BinOp(N(b), MulToken, N(c)))
                      => result = FromInteger(a + (b * c))
                /\ origin = BinOp(BinOp(N(a), PlusToken, N(b)), MulToken, N(c))
                      => result = FromInteger((a + b) * c)

C1_Witness ==
    /\ phase = "done"
    /\ text = <<"3", " ", "+", " ", "3", " ", "*", " ", "0">>
    /\ tree = BinOp(N(3), PlusToken, BinOp(N(3), MulToken, N(0)))
    /\ result = FromInteger(3)

-----------------------------------------------------------------------------
(* C2 *)

\* t is a chain of literals joined by operators of the level lvl, nested to the left
RECURSIVE LeftChain(_, _)
LeftChain(t, lvl) ==
    \/ t.node = "Num"
    \/ /\ t.node = "BinOp"
       /\ Level(t) = lvl
       /\ t.right.node = "Num"
       /\ LeftChain(t.left, lvl)

\* The operands and operators of a chain in their order, gap between them
RECURSIVE ChainText(_, _)
ChainText(t, gap) ==
    IF t.node = "Num" THEN Decimal(t.value)
    ELSE ChainText(t.left, gap) \o gap \o <<t.op.value>> \o gap \o Decimal(t.right.value)

RECURSIVE OnlyMinus(_)
OnlyMinus(t) == t.node = "Num" \/ (t.op.type = "MINUS" /\ OnlyMinus(t.left))

\* a - b - c ... subtracted from the left, as an integer
RECURSIVE SubtractFromLeft(_)
SubtractFromLeft(t) ==
    IF t.node = "Num" THEN t.value ELSE SubtractFromLeft(t.left) - t.right.value

\* C2 (left-associativity): a chain of literals joined by operators of one
\* precedence level, written without parentheses, parses to the tree nested to
\* the left (each operator's left child is the node built before it), and
\* "a - b - c" yields (a - b) - c.
C2_LeftAssociative ==
    (/\ phase = "done"
     /\ origin.node = "BinOp"
     /\ LeftChain(origin, Level(origin))
     /\ text \in {ChainText(origin, <<>>), ChainText(origin, <<" ">>)})
    => /\ tree = origin
       /\ tree.left = origin.left
       /\ OnlyMinus(origin) => result = FromInteger(SubtractFromLeft(origin))

C2_Witness ==
    /\ phase = "done"
    /\ text = <<"3", "-", "3", "-", "3">>
    /\ tree = BinOp(BinOp(N(3), MinusToken, N(3)), MinusToken, N(3))
    /\ result = FromInteger(-3)

-----------------------------------------------------------------------------
(* C3 *)

\* C3 (missing operand): an evaluation in which factor() found no operand (the
\* lookahead was none of INTEGER, LPAREN, PLUS, MINUS) does not return a value:
\* it fails with UnexpectedToken.
C3_MissingOperandRaises == phase = "done" => ~HasUndefined(tree)

-----------------------------------------------------------------------------
(* C4 *)

\* C4 (unmatched parenthesis): when the expression after an LPAREN has been
\* parsed and the lookahead is anything but RPAREN, the next step is
\* eat(RPAREN) raising UnexpectedToken: no token is pulled and no value is
\* returned.
C4_UnmatchedParen ==
    [][(At("factor", "paren") /\ currentToken.type # "RPAREN")
         => /\ phase' = "error"
            /\ error' = "UnexpectedToken"
            /\ result' = NoValue
            /\ pos' = pos
            /\ pulled' = pulled]_vars

C4_Witness ==
    /\ phase = "error"
    /\ error = "UnexpectedToken"
    /\ text = <<"(", "0", "+", "2">>
    /\ currentToken.type = "EOF"
    /\ result = NoValue

-----------------------------------------------------------------------------
(* C5 *)

LegalCharacters == Digits \cup {" ", "(", ")", "+", "-", "*", "/"}

\* C5 (bad character): nextToken in a state whose first character after the
\* spaces is illegal raises, returns no token and leaves the position at that
\* character; an evaluation that failed with InvalidCharacter stands at such
\* a character and has no value; "a & b" fails with InvalidCharacter.
C5_BadCharacter ==
    /\ LET lx == SkipWhitespace(Lexer) IN
          (lx.currentChar # Undefined /\ lx.currentChar \notin LegalCharacters)
             => /\ NextToken(Lexer).raised
                /\ NextToken(Lexer).token = NoToken
                /\ NextToken(Lexer).lexer.pos = lx.pos
                /\ NextToken(Lexer).lexer.currentChar = lx.currentChar
    /\ error = "InvalidCharacter"
          => /\ phase = "error"
             /\ result = NoValue
             /\ pos < Len(text)
             /\ currentChar = text[pos + 1]
             /\ currentChar \notin LegalCharacters
    /\ \A a \in Alphabet \cap Digits, b \in Alphabet \cap Digits :
          (Terminated /\ text \in {<<a, "&", b>>, <<a, " ", "&", b>>, <<a, "&", " ", b>>,
                                  <<a, " ", "&", " ", b>>})
             => error = "InvalidCharacter"

C5_Witness ==
    /\ phase = "error"
    /\ error = "InvalidCharacter"
    /\ text = <<"2", " ", "&", "0">>
    /\ pos = 2
    /\ currentChar = "&"
    /\ Len(pulled) = 1

-----------------------------------------------------------------------------
(* C6 *)

\* The number of signs in front of the operand of a chain of unary operators
RECURSIVE SignCount(_)
SignCount(t) == IF t.node = "UnaryOp" THEN 1 + SignCount(t.expr) ELSE 0

RECURSIVE MinusCount(_)
MinusCount(t) ==
    IF t.node = "UnaryOp"
    THEN (IF t.op.type = "MINUS" THEN 1 ELSE 0) + MinusCount(t.expr)
    ELSE 0

\* The operand X under the signs
RECURSIVE SignedOperand(_)
SignedOperand(t) == IF t.node = "UnaryOp" THEN SignedOperand(t.expr) ELSE t

\* C6 (unary chaining): n >= 1 signs in front of an operand X parse to n nested
\* UnaryOp nodes over the tree of X, and the value is the value of X with its
\* sign flipped once per `-`; "- -k" yields k and "-(a+b)" yields -(a+b).
C6_UnaryChaining ==
    (phase = "done" /\ origin.node = "UnaryOp" /\ RenderedWhole)
    => /\ SignCount(tree) = SignCount(origin)
       /\ tree = origin
       /\ LET x == ToNumber(Visit(SignedOperand(origin))) IN
          /\ result.kind = x.kind
          /\ result.num = x.num
          /\ result.den = x.den
          /\ x.kind # "NaN" =>
                result.sign = (IF MinusCount(origin) % 2 = 0 THEN x.sign ELSE -x.sign)
       /\ \A k \in LiteralValues :
             origin = UnaryOp(MinusToken, UnaryOp(MinusToken, N(k)))
                => result = FromInteger(k)
       /\ \A a \in LiteralValues, b \in LiteralValues :
             origin = UnaryOp(MinusToken, BinOp(N(a), PlusToken, N(b)))
                => result = Finite(-1, a + b, 1)

C6_Witness ==
    /\ phase = "done"
    /\ text = <<"-", " ", "-", " ", "3">>
    /\ tree = UnaryOp(MinusToken, UnaryOp(MinusToken, N(3)))
    /\ result = FromInteger(3)

-----------------------------------------------------------------------------
(* C7 *)

\* The token sequences p and q are the same, kind by kind and value by value
SameTokens(p, q) ==
    /\ Len(p) = Len(q)
    /\ \A i \in 1..Len(p) :
          /\ p[i].token.type = q[i].token.type
          /\ p[i].token.type = "INTEGER" => p[i].token.value = q[i].token.value

\* C7 (whitespace insensitivity): an evaluation of a text with spaces put
\* before its first token, after its last one or between two adjacent ones
\* pulls the same tokens and ends as the evaluation of the text itself did:
\* with the same value, or with the same error.
C7_WhitespaceInsensitive ==
    (Terminated /\ previous.phase # "none" /\ text \in Padded(previous.text))
    => /\ SameTokens(pulled, previous.pulled)
       /\ phase = previous.phase
       /\ error = previous.error
       /\ tree = previous.tree
       /\ result = previous.result

C7_Witness ==
    /\ phase = "done"
    /\ previous.phase = "done"
    /\ previous.text = <<"2", "+", "2">>
    /\ text = <<"2", " ", " ", "+", "2">>
    /\ result = FromInteger(4)
    /\ previous.result = FromInteger(4)

-----------------------------------------------------------------------------
(* C8 *)

\* The finished evaluation was of a well-formed expression, read to its end
WellFormedBefore ==
    /\ previous.phase = "done"
    /\ ~HasUndefined(previous.tree)
    /\ previous.pulled[Len(previous.pulled)].token.type = "EOF"

\* C8 (trailing tokens): a well-formed expression followed by a token that
\* cannot continue it is evaluated as the expression alone: no error, the same
\* tree, the same value, and the lookahead left standing is not EOF.
C8_TrailingIgnored ==
    (Terminated /\ WellFormedBefore /\ text \in Trailing(previous.text))
    => /\ phase = "done"
       /\ error = "none"
       /\ tree = previous.tree
       /\ result = previous.result
       /\ currentToken.type \in {"RPAREN", "LPAREN", "INTEGER"}

C8_Witness ==
    /\ phase = "done"
    /\ previous.text = <<"2", "+", "2">>
    /\ text = <<"2", "+", "2", ")">>
    /\ currentToken.type = "RPAREN"
    /\ result = FromInteger(4)

-----------------------------------------------------------------------------
(* C9 *)

\* Some division in t has a right operand whose value is zero
RECURSIVE DividesByZero(_)
DividesByZero(t) ==
    IF t.node = "BinOp"
    THEN \/ (t.op.type = "DIVIDE" /\ IsZero(Visit(t.right)))
         \/ DividesByZero(t.left)
         \/ DividesByZero(t.right)
    ELSE IF t.node = "UnaryOp" THEN DividesByZero(t.expr)
    ELSE FALSE

\* Some division by zero in t is not inside the right operand of a division
RECURSIVE ExposedDivisionByZero(_)
ExposedDivisionByZero(t) ==
    IF t.node = "BinOp"
    THEN IF t.op.type = "DIVIDE"
         THEN IsZero(Visit(t.right)) \/ ExposedDivisionByZero(t.left)
         ELSE ExposedDivisionByZero(t.left) \/ ExposedDivisionByZero(t.right)
    ELSE IF t.node = "UnaryOp" THEN ExposedDivisionByZero(t.expr)
    ELSE FALSE

\* Every division of t by zero has an infinite or not-a-number value
RECURSIVE DivisionsBehave(_)
DivisionsBehave(t) ==
    IF t.node = "BinOp"
    THEN /\ (t.op.type = "DIVIDE" /\ IsZero(Visit(t.right)))
               => Visit(t).kind \in {"Infinity", "NaN"}
         /\ DivisionsBehave(t.left)
         /\ DivisionsBehave(t.right)
    ELSE IF t.node = "UnaryOp" THEN DivisionsBehave(t.expr)
    ELSE TRUE

\* C9 as claimed (division by zero): a well-formed expression with a division
\* by zero is evaluated without error, and its value is the infinite or
\* not-a-number result of that division, carried through the enclosing
\* operators.
C9_SpecialResultPropagates ==
    (Terminated /\ RenderedWhole /\ DividesByZero(origin))
    => /\ phase = "done"
       /\ error = "none"
       /\ result.kind \in {"Infinity", "NaN"}

\* C9 as amended: the evaluation ends without error, every division by zero
\* has an infinite or not-a-number value, and so has the whole expression
\* unless every division by zero lies inside the right operand of a division
\* (a finite number divided by an infinite one is zero).
C9_DivisionByZero ==
    (Terminated /\ RenderedWhole /\ DividesByZero(origin))
    => /\ phase = "done"
       /\ error = "none"
       /\ tree = origin
       /\ DivisionsBehave(tree)
       /\ ExposedDivisionByZero(origin) => result.kind \in {"Infinity", "NaN"}

C9_Witness ==
    /\ phase = "done"
    /\ text = <<"3", "/", "(", "3", "/", "0", ")">>
    /\ result = FromInteger(0)

-----------------------------------------------------------------------------
(* C10 *)

\* t is built from literals and the binary operators + - * alone
RECURSIVE DivisionFree(_)
DivisionFree(t) ==
    \/ t.node = "Num"
    \/ /\ t.node = "BinOp"
       /\ t.op.type \in {"PLUS", "MINUS", "MUL"}
       /\ DivisionFree(t.left)
       /\ DivisionFree(t.right)

\* The value of such a tree, folded over the integers
RECURSIVE Fold(_)
Fold(t) ==
    IF t.node = "Num" THEN t.value
    ELSE IF t.op.type = "PLUS" THEN Fold(t.left) + Fold(t.right)
    ELSE IF t.op.type = "MINUS" THEN Fold(t.left) - Fold(t.right)
    ELSE Fold(t.left) * Fold(t.right)

\* C10 (round trip): the fully parenthesized text of a tree of literals and
\* + - * is evaluated without error to the number the tree folds to.
C10_RoundTrip ==
    (Terminated /\ DivisionFree(origin) /\ text = Render(origin, "full"))
    => /\ phase = "done"
       /\ SameNumber(result, FromInteger(Fold(origin)))

C10_Witness ==
    /\ phase = "done"
    /\ text = <<"(", "(", "3", "-", "0", ")", "*", "3", ")">>
    /\ origin = BinOp(BinOp(N(3), MinusToken, N(0)), MulToken, N(3))
    /\ result = FromInteger(9)

-----------------------------------------------------------------------------
(* Determinism across evaluations *)

\* The sequence p of pulled tokens, each with the scanner position after it,
\* is the beginning of the sequence q
PrefixOf(p, q) ==
    /\ Len(p) <= Len(q)
    /\ \A i \in 1..Len(p) : p[i] = q[i]

\* The evaluation under way is the second one, of the text of the first
SameTextAgain == previous.phase # "none" /\ text = previous.text

-----------------------------------------------------------------------------
(* C12 *)

\* The kind the parser is about to call eat() with, "none" when the next step
\* of the parser is not a call of eat()
EatExpected ==
    IF At("factor", "start") /\ currentToken.type \in {"PLUS", "MINUS", "INTEGER", "LPAREN"}
    THEN currentToken.type
    ELSE IF At("factor", "paren") THEN "RPAREN"
    ELSE IF (At("term", "first") \/ At("term", "rhs")) /\ currentToken.type \in {"MUL", "DIVIDE"}
    THEN currentToken.type
    ELSE IF (At("expr", "first") \/ At("expr", "rhs")) /\ currentToken.type \in {"PLUS", "MINUS"}
    THEN currentToken.type
    ELSE "none"

\* eat() finds a lookahead of another kind: UnexpectedToken, nothing pulled,
\* scanner and lookahead as they were
EatMismatch ==
    /\ phase' = "error"
    /\ error' = "UnexpectedToken"
    /\ pulled' = pulled
    /\ pos' = pos
    /\ currentChar' = currentChar
    /\ currentToken' = currentToken

\* One token is pulled and is the new lookahead
EatPullsOne ==
    /\ phase' = "parsing"
    /\ error' = "none"
    /\ Len(pulled') = Len(pulled) + 1
    /\ SubSeq(pulled', 1, Len(pulled)) = pulled
    /\ currentToken' = pulled'[Len(pulled')].token
    /\ currentToken'.type \in TokenType
    /\ pos' = pulled'[Len(pulled')].pos

\* The character the scanner stands at after the spaces is not one of the language
BadCharacterAhead ==
    LET lx == SkipWhitespace(Lexer) IN
    lx.currentChar # Undefined /\ lx.currentChar \notin LegalCharacters

\* C12 as stated (eat's frame): a call of eat() on a lookahead of the expected
\* kind pulls exactly one token, which becomes the lookahead; on a lookahead
\* of another kind it raises UnexpectedToken and leaves scanner and lookahead
\* alone.
C12_EatAlwaysPulls ==
    [][(EatExpected # "none")
         => IF currentToken.type = EatExpected THEN EatPullsOne ELSE EatMismatch]_vars

\* C12 (eat's frame, amended): a call of eat() on a lookahead of the expected
\* kind makes one nextToken call; when the scanner stands before an illegal
\* character that call raises InvalidCharacter, no token is pulled and the
\* lookahead stays, otherwise exactly one token is pulled and becomes the
\* lookahead. On a lookahead of another kind eat() raises UnexpectedToken,
\* pulls nothing and leaves position and lookahead unchanged.
C12_EatFrame ==
    [][(EatExpected # "none")
         => IF currentToken.type # EatExpected THEN EatMismatch
            ELSE IF BadCharacterAhead
            THEN /\ phase' = "error"
                 /\ error' = "InvalidCharacter"
                 /\ pulled' = pulled
                 /\ currentToken' = currentToken
            ELSE EatPullsOne]_vars

C12_Witness ==
    /\ text = <<"2", "+", "0">>
    /\ phase = "parsing"
    /\ eaten = 2
    /\ Len(pulled) = 3
    /\ currentToken = Token("INTEGER", 0)
    /\ pos = 3

-----------------------------------------------------------------------------
(* C13 *)

\* The cursor of the lexer lx is inside its text or at its end, and its
\* current character is the one at the cursor, absent at the end
CursorOk(lx) ==
    /\ lx.pos >= 0
    /\ lx.pos <= Len(lx.text)
    /\ (lx.currentChar = Undefined) <=> (lx.pos >= Len(lx.text))
    /\ lx.pos < Len(lx.text) => lx.currentChar = lx.text[lx.pos + 1]

\* The lexer standing at position p of the text, p before the end
LexerAt(p) == [text |-> text, pos |-> p, currentChar |-> text[p + 1]]

\* C13 (scanner cursor): before and after every nextToken call 0 <= pos <=
\* length(text) and currentChar is text[pos], absent exactly when pos is at the
\* end; every advance() from a position inside the text keeps this and moves
\* the position up; and no nextToken call moves the position down.
C13_CursorInvariant ==
    /\ [](/\ CursorOk(Lexer)
          /\ \A p \in 0..(Len(text) - 1) :
                /\ CursorOk(Advance(LexerAt(p)))
                /\ Advance(LexerAt(p)).pos > p)
    /\ [][pos' >= pos]_vars

C13_Witness ==
    /\ text = <<"2", "0", " ", "+">>
    /\ Len(pulled) = 3
    /\ pulled[1].pos = 2
    /\ pulled[3].token.type = "EOF"
    /\ pos = 4
    /\ currentChar = Undefined

-----------------------------------------------------------------------------
(* C14 *)

RECURSIVE PowerOfTen(_)
PowerOfTen(n) == IF n = 0 THEN 1 ELSE 10 * PowerOfTen(n - 1)

\* The number written by the digits t[from..to], each weighted by its place
RECURSIVE PlaceValue(_, _, _)
PlaceValue(t, from, to) ==
    IF from > to THEN 0
    ELSE DigitValue(t[from]) * PowerOfTen(to - from) + PlaceValue(t, from + 1, to)

\* The position the scanner stood at when the i-th token was asked for
PulledFrom(i) == IF i = 1 THEN 0 ELSE pulled[i - 1].pos

\* The position of the first character of the i-th token: the first one at
\* or after PulledFrom(i) that is not a space
TokenStart(i) ==
    CHOOSE s \in PulledFrom(i)..pulled[i].pos :
        /\ \A k \in (PulledFrom(i) + 1)..s : text[k] = " "
        /\ s < Len(text) => text[s + 1] # " "

\* The i-th token pulled is the whole run of digits the scanner found
MaximalRun(i) ==
    LET from == TokenStart(i)
        to == pulled[i].pos
    IN  /\ from < to
        /\ \A k \in (from + 1)..to : IsDigit(text[k])
        /\ to < Len(text) => ~IsDigit(text[to + 1])
        /\ pulled[i].token.value = PlaceValue(text, from + 1, to)

\* C14 (maximal digit run): every INTEGER token returned by nextToken covers
\* the whole run of consecutive digits that starts at the first character
\* after the spaces, and its value is the decimal value of that run; right
\* after it is returned the current character is absent or not a digit; and
\* two INTEGER tokens returned one after the other have a space after the
\* first run.
C14_MaximalDigitRun ==
    /\ \A i \in 1..Len(pulled) :
          pulled[i].token.type = "INTEGER" => MaximalRun(i)
    /\ (Len(pulled) > 0 /\ pulled[Len(pulled)].token.type = "INTEGER" /\ phase = "lexer")
          => (currentChar = Undefined \/ ~IsDigit(currentChar))
    /\ \A i \in 1..(Len(pulled) - 1) :
          (pulled[i].token.type = "INTEGER" /\ pulled[i + 1].token.type = "INTEGER")
             => text[pulled[i].pos + 1] = " "

C14_Witness ==
    /\ text = <<"2", "0", " ", "2">>
    /\ Len(pulled) = 2
    /\ pulled[1] = [token |-> Token("INTEGER", 20), pos |-> 2]
    /\ pulled[2] = [token |-> Token("INTEGER", 2), pos |-> 4]
    /\ currentChar = Undefined

-----------------------------------------------------------------------------
(* C15 *)

OnlySpaces(t) == \A k \in 1..Len(t) : t[k] = " "

\* C15 (EOF is absorbing): on an empty text or one of spaces only the first
\* nextToken call returns EOF; and once a call has returned EOF every later
\* call returns EOF too, raises nothing and leaves the position at the end
\* of the text.
C15_EndAbsorbing ==
    /\ (OnlySpaces(text) /\ Len(pulled) >= 1) => pulled[1].token.type = "EOF"
    /\ \A i \in 1..Len(pulled) :
          pulled[i].token.type = "EOF"
             => /\ pulled[i].pos = Len(text)
                /\ pos = Len(text)
                /\ phase # "error"
                /\ \A j \in i..Len(pulled) :
                      pulled[j] = [token |-> Token("EOF", Undefined), pos |-> Len(text)]

C15_Witness ==
    /\ text = <<" ", " ">>
    /\ Len(pulled) = 3
    /\ \A j \in 1..3 : pulled[j].token.type = "EOF"
    /\ pos = 2

-----------------------------------------------------------------------------
(* C16 *)

\* The next step of the evaluation calls nextToken: in the constructor of the
\* Parser, or in eat() on a lookahead of the expected kind
PullsNext ==
    \/ phase = "lexer"
    \/ EatExpected # "none" /\ currentToken.type = EatExpected

\* C16 (first error wins): an evaluation is in error exactly when an error
\* kind is recorded; the step that raises records InvalidCharacter exactly
\* when it is a nextToken call before an illegal character and
\* UnexpectedToken exactly when it is eat() on a lookahead of another kind,
\* and pulls no token; once raised, the evaluation has no further step, no
\* tree and no value.
C16_FirstErrorWins ==
    /\ []((phase = "error") <=> (error # "none"))
    /\ [](phase = "error"
            => /\ ~ENABLED Next
               /\ stack = <<>>
               /\ tree = UndefNode
               /\ result = NoValue)
    /\ [][(phase # "error" /\ phase' = "error")
            => /\ pulled' = pulled
               /\ currentToken' = currentToken
               /\ (error' = "InvalidCharacter") <=> (PullsNext /\ BadCharacterAhead)
               /\ (error' = "UnexpectedToken")
                     <=> (EatExpected # "none" /\ currentToken.type # EatExpected)]_vars

C16_Witness ==
    /\ text = <<"(", "2", "&">>
    /\ phase = "error"
    /\ error = "InvalidCharacter"
    /\ currentToken = Token("INTEGER", 2)
    /\ Len(pulled) = 2
    /\ pos = 2

-----------------------------------------------------------------------------
(* C17 *)

\* t is a Num, or a UnaryOp with a sign, or a BinOp with one of the four
\* operators, over children that are such nodes themselves
RECURSIVE WellFormedTree(_)
WellFormedTree(t) ==
    \/ /\ t.node = "Num"
       /\ t.token.type = "INTEGER"
    \/ /\ t.node = "UnaryOp"
       /\ t.op.type \in {"PLUS", "MINUS"}
       /\ WellFormedTree(t.expr)
    \/ /\ t.node = "BinOp"
       /\ t.op.type \in {"PLUS", "MINUS", "MUL", "DIVIDE"}
       /\ WellFormedTree(t.left)
       /\ WellFormedTree(t.right)

\* parse() has returned: expr() is back in interpret() with its tree
ParseReturned == phase = "parsing" /\ stack = <<>>

\* C17 (AST well-formedness): whenever parse() returns without raising, what
\* it returns is a tree of Num, UnaryOp and BinOp nodes all the way down, with
\* PLUS or MINUS on every UnaryOp and PLUS, MINUS, MUL or DIVIDE on every
\* BinOp; and the tree the evaluator visited is the tree parse() returned.
C17_WellFormedAst ==
    /\ ParseReturned => WellFormedTree(ret)
    /\ phase = "done" => (tree = ret /\ WellFormedTree(tree))

-----------------------------------------------------------------------------
(* C18 *)

\* The number of tokens written in the text: the runs of digits and the
\* operator and parenthesis characters
TokensIn(t) ==
    Cardinality({k \in 1..Len(t) :
                    \/ t[k] \in DOMAIN SingleCharTokens
                    \/ IsDigit(t[k]) /\ (k = 1 \/ ~IsDigit(t[k - 1]))})

\* The nextToken calls made so far: those that returned, and the one that raised
NextTokenCalls == Len(pulled) + (IF error = "InvalidCharacter" THEN 1 ELSE 0)

\* The step begins another iteration of the loop of term() or expr(), or the
\* recursive factor() call after a unary sign
Iterates ==
    /\ phase' = "parsing"
    /\ Len(stack) >= 1
    /\ Len(stack') = Len(stack) + 1
    /\ stack'[Len(stack)].pc \in {"rhs", "unary"}

\* C18 (termination): every evaluation ends, with a value or an error; a
\* nextToken call that returns a token other than EOF moves the position up;
\* each iteration of the loops of term() and expr() and each recursive
\* factor() call on a sign consumes one token; and the nextToken calls are at
\* most the tokens of the text plus one.
C18_Terminates ==
    /\ <>Terminated
    /\ [](NextTokenCalls <= TokensIn(text) + 1)
    /\ [][(Len(pulled') > Len(pulled) /\ pulled'[Len(pulled')].token.type # "EOF")
            => pos' > pos]_vars
    /\ [][Iterates => (eaten' = eaten + 1 /\ Len(pulled') = Len(pulled) + 1)]_vars

C18_Witness ==
    /\ text = <<"2", "*", "2">>
    /\ phase = "done"
    /\ NextTokenCalls = 4
    /\ eaten = 3
    /\ result = FromInteger(4)

-----------------------------------------------------------------------------
(* C19 *)

\* The text begins with two one-digit numbers a space apart
TwoNumbers ==
    /\ Len(text) >= 3
    /\ IsDigit(text[1])
    /\ text[2] = " "
    /\ IsDigit(text[3])

\* C19 (one token of lookahead): from the construction of the Parser on, the
\* nextToken calls made are the tokens eaten plus one; while no error is
\* raised the lookahead is the last token pulled and the scanner stands
\* right after it, so nothing behind the lookahead has been scanned; and an
\* evaluation of a text that begins with two numbers a space apart stops at
\* the second one and ends with the value of the first, whatever follows,
\* an illegal character included.
C19_SingleLookahead ==
    /\ phase # "lexer" => NextTokenCalls = eaten + 1
    /\ phase \in {"parser", "parsing", "done"}
          => /\ Len(pulled) = eaten + 1
             /\ currentToken = pulled[Len(pulled)].token
             /\ pos = pulled[Len(pulled)].pos
    /\ (Terminated /\ TwoNumbers)
          => /\ phase = "done"
             /\ error = "none"
             /\ Len(pulled) = 2
             /\ SameNumber(result, FromInteger(DigitValue(text[1])))

C19_Witness ==
    /\ text = <<"2", " ", "0", "&">>
    /\ phase = "done"
    /\ result = FromInteger(2)
    /\ currentToken = Token("INTEGER", 0)
    /\ pos = 3
    /\ currentChar = "&"

====
